---- MODULE Spec2Model ----
(***************************************************************************)
(* Activity store of the clawdbot monitor: the sessions table, the actions *)
(* table and the runId -> sessionKey cache, with the operations            *)
(* upsertSession, addAction, updateSessionStatus, updateSession and        *)
(* clearCollections, and the poll conversion sessionInfoToMonitor.         *)
(*                                                                         *)
(* Both tables are @tanstack/db local-only collections keyed by getKey.    *)
(* collection.insert rejects (throws, state unchanged) an item whose key   *)
(* is undefined or already present; collection.update rejects a draft      *)
(* whose key differs from the key it was opened with.                      *)
(***************************************************************************)
EXTENDS Integers, Sequences, FiniteSets, TLC

\* ---------------------------------------------------------------- bounds
\* Date.now() and every timestamp range over 0..MaxTime.
MaxTime == 1
\* seq of an incoming action ranges over 1..MaxSeq.
MaxSeq == 2
\* number of store operations in one behaviour of the action specification.
MaxSteps == 3

\* Longest actions list, beyond the patterned long lists, the graph is
\* projected from.
MaxActions == 3

\* Most loadSessions requests awaiting their answer at one time.
MaxPending == 2

\* ------------------------------------------------------------ JS values
\* The JavaScript value undefined (an absent optional string field).
Undefined == "<undefined>"

\* sentinel session key, compared with === at the resolve step.
Lifecycle == "lifecycle"

Times == 0..MaxTime

\* ------------------------------------------------------------- sessions
SessionKeys == {"s1", "s2"}

Statuses == {"idle", "thinking", "active"}

\* parseSessionKey (protocol.ts): deterministic decomposition of a key.
ParseSessionKey(k) ==
  IF k = "s1"
    THEN [agentId |-> "main", platform |-> "whatsapp", recipient |-> "alice", isGroup |-> FALSE]
    ELSE [agentId |-> "main", platform |-> "slack", recipient |-> "team", isGroup |-> TRUE]

\* SessionInfo records returned by the sessions poll.
SessionInfos == [key : SessionKeys, lastActivityAt : Times]

\* sessionInfoToMonitor: a full MonitorSession whose status is always idle.
SessionInfoToMonitor(info) ==
  LET parsed == ParseSessionKey(info.key)
  IN  [key            |-> info.key,
       agentId        |-> parsed.agentId,
       platform       |-> parsed.platform,
       recipient      |-> parsed.recipient,
       isGroup        |-> parsed.isGroup,
       lastActivityAt |-> info.lastActivityAt,
       status         |-> "idle"]

\* Session patch of parseEventFrame for a chat frame, read at time t.
ChatSessionPatch(sessionKey, state, t) ==
  [key            |-> sessionKey,
   status         |-> IF state = "delta" THEN "thinking" ELSE "active",
   lastActivityAt |-> t]

\* Object.assign(draft, patch): every own field of patch overwrites draft.
ObjectAssign(draft, patch) ==
  [f \in (DOMAIN draft) \cup (DOMAIN patch) |->
     IF f \in DOMAIN patch THEN patch[f] ELSE draft[f]]

\* getKey of both collections applied to an item (undefined when absent).
GetKey(item, field) == IF field \in DOMAIN item THEN item[field] ELSE Undefined

\* ------------------------------------------------- @tanstack/db tables
EmptyTable == [k \in {} |-> Undefined]

\* collection.insert(item): throws, and stores nothing, when the item's key
\* is undefined or already present.
CollectionInsert(table, item, field) ==
  LET k == GetKey(item, field)
  IN  IF k = Undefined \/ k \in DOMAIN table
        THEN table
        ELSE [x \in (DOMAIN table) \cup {k} |-> IF x = k THEN item ELSE table[x]]

\* collection.update(key, cb): the draft after cb replaces the item; a draft
\* whose key changed is rejected (throws) and the item stays as it was.
CollectionUpdate(table, key, modified, field) ==
  IF GetKey(modified, field) # key
    THEN table
    ELSE [table EXCEPT ![key] = modified]

\* table with key k bound to v.
Put(table, k, v) ==
  [x \in (DOMAIN table) \cup {k} |-> IF x = k THEN v ELSE table[x]]

\* -------------------------------------------------------------- actions
RunIds == {"r1", "r2"}

Seqs == 1..MaxSeq

TerminalTypes == {"final", "error", "aborted"}

ToolTypes == {"tool_call", "tool_result"}

Types == {"delta"} \cup ToolTypes \cup TerminalTypes

\* sessionKey of an incoming action: missing, the sentinel, a plain key, and
\* a key that has the sentinel as a substring.
ActionSessionKeys == {Undefined, Lifecycle, "conv-1", "team-lifecycle"}

\* content of an incoming delta.
DeltaContents == {Undefined, "Hel", "lo "}

\* content the normalizer gives an action that is not a delta.
ContentOf(type) ==
  CASE type = "tool_call"   -> "Tool: exec"
    [] type = "tool_result" -> "ok"
    [] type = "error"       -> "boom"
    [] OTHER                -> Undefined

\* `${runId}-${seq}`
NaturalId(runId, seq) == runId \o "-" \o ToString(seq)

\* `${action.runId}-stream`
StreamingId(runId) == runId \o "-stream"

\* A MonitorAction as the normalizer builds it, stamped at time t.
MonitorAction(runId, seq, type, sessionKey, content, t) ==
  [id         |-> NaturalId(runId, seq),
   runId      |-> runId,
   sessionKey |-> sessionKey,
   seq        |-> seq,
   type       |-> type,
   eventType  |-> IF type \in ToolTypes THEN "agent" ELSE "chat",
   timestamp  |-> t,
   content    |-> content,
   toolName   |-> IF type = "tool_call" THEN "exec" ELSE Undefined,
   toolArgs   |-> IF type = "tool_call" THEN "{cmd}" ELSE Undefined]

\* sessionKey carried by the frames of a run in the action specification: the
\* frames of r1 name their conversation, those of r2 carry the sentinel.
RunSessionKey(runId) == IF runId = "r1" THEN "conv-1" ELSE Lifecycle

\* The actions addAction may receive at time t in the action specification:
\* every run, seq and type, every delta content.
ActionInputs(t) ==
  {MonitorAction(r, q, "delta", RunSessionKey(r), c, t) :
     r \in RunIds, q \in Seqs, c \in DeltaContents}
  \cup
  {MonitorAction(r, q, ty, RunSessionKey(r), ContentOf(ty), t) :
     r \in RunIds, q \in Seqs, ty \in Types \ {"delta"}}

\* The actions addAction may receive at time t in the session-key
\* specification: every run, type and sessionKey.
KeyedInputs(t) ==
  {MonitorAction(r, 1, ty, k, IF ty = "delta" THEN "Hel" ELSE ContentOf(ty), t) :
     r \in RunIds, ty \in Types, k \in ActionSessionKeys}

\* The actions addAction may receive at time t in the store specification:
\* every run and type, with a missing, sentinel or plain sessionKey.
StoreInputs(t) ==
  {MonitorAction(r, 1, ty, k, IF ty = "delta" THEN "Hel" ELSE ContentOf(ty), t) :
     r \in RunIds, ty \in Types, k \in {Undefined, Lifecycle, "conv-1"}}

\* JavaScript truthiness of an optional string.
Truthy(str) == str # Undefined /\ str # ""

\* (str || '')
OrEmpty(str) == IF Truthy(str) THEN str ELSE ""

\* sessionKey.includes('lifecycle'), over ActionSessionKeys.
IncludesLifecycle(sessionKey) == sessionKey \in {Lifecycle, "team-lifecycle"}

\* Learn step: runSessionMap after addAction(action).
LearnResult(map, action) ==
  IF Truthy(action.sessionKey) /\ ~IncludesLifecycle(action.sessionKey)
    THEN Put(map, action.runId, action.sessionKey)
    ELSE map

\* Resolve step: the sessionKey addAction works with, given the map after
\* the learn step.
ResolveSessionKey(map, action) ==
  IF ~Truthy(action.sessionKey) \/ action.sessionKey = Lifecycle
    THEN IF action.runId \in DOMAIN map /\ Truthy(map[action.runId])
           THEN map[action.runId]
           ELSE action.sessionKey
    ELSE action.sessionKey

\* The sessionKey overwrite without its guard.
WithSessionKeyAlways(draft, sessionKey) ==
  [draft EXCEPT !.sessionKey = sessionKey]

\* if (sessionKey && sessionKey !== 'lifecycle') draft.sessionKey = sessionKey
WithSessionKey(draft, sessionKey) ==
  IF Truthy(sessionKey) /\ sessionKey # Lifecycle
    THEN [draft EXCEPT !.sessionKey = sessionKey]
    ELSE draft

\* Delta branch that overwrites the content instead of appending.
AddDeltaOverwrite(table, action, sessionKey) ==
  LET streamingId == StreamingId(action.runId)
  IN  IF streamingId \in DOMAIN table
        THEN CollectionUpdate(table, streamingId,
               WithSessionKey(
                 [table[streamingId] EXCEPT
                    !.content   = OrEmpty(action.content),
                    !.seq       = action.seq,
                    !.timestamp = action.timestamp],
                 sessionKey),
               "id")
        ELSE CollectionInsert(table,
               [action EXCEPT !.id = streamingId, !.sessionKey = sessionKey], "id")

\* Delta branch that creates the record without forcing the streaming id.
AddDeltaNaturalId(table, action, sessionKey) ==
  LET streamingId == StreamingId(action.runId)
  IN  IF streamingId \in DOMAIN table
        THEN CollectionUpdate(table, streamingId,
               WithSessionKey(
                 [table[streamingId] EXCEPT
                    !.content   = OrEmpty(@) \o OrEmpty(action.content),
                    !.seq       = action.seq,
                    !.timestamp = action.timestamp],
                 sessionKey),
               "id")
        ELSE CollectionInsert(table, [action EXCEPT !.sessionKey = sessionKey], "id")

\* Delta branch that marks the streaming record as streaming again.
AddDeltaReopens(table, action, sessionKey) ==
  LET streamingId == StreamingId(action.runId)
  IN  IF streamingId \in DOMAIN table
        THEN CollectionUpdate(table, streamingId,
               WithSessionKey(
                 [table[streamingId] EXCEPT
                    !.type      = "delta",
                    !.content   = OrEmpty(@) \o OrEmpty(action.content),
                    !.seq       = action.seq,
                    !.timestamp = action.timestamp],
                 sessionKey),
               "id")
        ELSE CollectionInsert(table,
               [action EXCEPT !.id = streamingId, !.sessionKey = sessionKey], "id")

\* Delta branch that skips a delta whose seq the streaming record already has.
AddDeltaDedup(table, action, sessionKey) ==
  LET streamingId == StreamingId(action.runId)
  IN  IF streamingId \in DOMAIN table
        THEN IF table[streamingId].seq = action.seq
               THEN table
               ELSE CollectionUpdate(table, streamingId,
                      WithSessionKey(
                        [table[streamingId] EXCEPT
                           !.content   = OrEmpty(@) \o OrEmpty(action.content),
                           !.seq       = action.seq,
                           !.timestamp = action.timestamp],
                        sessionKey),
                      "id")
        ELSE CollectionInsert(table,
               [action EXCEPT !.id = streamingId, !.sessionKey = sessionKey], "id")

\* Delta branch: append to the streaming record or create it.
AddDelta(table, action, sessionKey) ==
  LET streamingId == StreamingId(action.runId)
  IN  IF streamingId \in DOMAIN table
        THEN CollectionUpdate(table, streamingId,
               WithSessionKey(
                 [table[streamingId] EXCEPT
                    !.content   = OrEmpty(@) \o OrEmpty(action.content),
                    !.seq       = action.seq,
                    !.timestamp = action.timestamp],
                 sessionKey),
               "id")
        ELSE CollectionInsert(table,
               [action EXCEPT !.id = streamingId, !.sessionKey = sessionKey], "id")

\* Default branch that appends the content to a record already stored.
AddDefaultAppend(table, action, sessionKey) ==
  IF action.id \in DOMAIN table
    THEN [table EXCEPT ![action.id].content = OrEmpty(@) \o OrEmpty(action.content)]
    ELSE CollectionInsert(table, [action EXCEPT !.sessionKey = sessionKey], "id")

\* Default branch in which the last write wins.
AddDefaultOverwrite(table, action, sessionKey) ==
  IF action.id \in DOMAIN table
    THEN [table EXCEPT ![action.id] = [action EXCEPT !.sessionKey = sessionKey]]
    ELSE CollectionInsert(table, [action EXCEPT !.sessionKey = sessionKey], "id")

\* Default branch: insert under the natural id unless it is taken.
AddDefault(table, action, sessionKey) ==
  IF action.id \in DOMAIN table
    THEN table
    ELSE CollectionInsert(table, [action EXCEPT !.sessionKey = sessionKey], "id")

\* Terminal branch without the return after the update.
AddTerminalFallThrough(table, action, sessionKey) ==
  LET streamingId == StreamingId(action.runId)
  IN  IF streamingId \in DOMAIN table
        THEN AddDefault(
               CollectionUpdate(table, streamingId,
                 WithSessionKey(
                   [table[streamingId] EXCEPT
                      !.type      = action.type,
                      !.seq       = action.seq,
                      !.timestamp = action.timestamp],
                   sessionKey),
                 "id"),
               action, sessionKey)
        ELSE AddDefault(table, action, sessionKey)

\* Terminal branch that opens a streaming record when there is none.
AddTerminalOpensStream(table, action, sessionKey) ==
  LET streamingId == StreamingId(action.runId)
  IN  IF streamingId \in DOMAIN table
        THEN CollectionUpdate(table, streamingId,
               WithSessionKey(
                 [table[streamingId] EXCEPT
                    !.type      = action.type,
                    !.seq       = action.seq,
                    !.timestamp = action.timestamp],
                 sessionKey),
               "id")
        ELSE CollectionInsert(table,
               [action EXCEPT !.id = streamingId, !.sessionKey = sessionKey], "id")

\* Terminal branch that also stores the content of the terminal action.
AddTerminalCopiesContent(table, action, sessionKey) ==
  LET streamingId == StreamingId(action.runId)
  IN  IF streamingId \in DOMAIN table
        THEN CollectionUpdate(table, streamingId,
               WithSessionKey(
                 [table[streamingId] EXCEPT
                    !.type      = action.type,
                    !.content   = action.content,
                    !.seq       = action.seq,
                    !.timestamp = action.timestamp],
                 sessionKey),
               "id")
        ELSE IF action.id \in DOMAIN table
          THEN table
          ELSE CollectionInsert(table, [action EXCEPT !.sessionKey = sessionKey], "id")

\* Terminal branch that replaces the streaming record by a record at the
\* natural id of the terminal action.
AddTerminalReplacesStream(table, action, sessionKey) ==
  LET streamingId == StreamingId(action.runId)
      rest == [id \in (DOMAIN table) \ {streamingId} |-> table[id]]
  IN  IF streamingId \in DOMAIN table
        THEN IF action.id \in DOMAIN rest
               THEN rest
               ELSE CollectionInsert(rest, [action EXCEPT !.sessionKey = sessionKey], "id")
        ELSE AddDefault(table, action, sessionKey)

\* Terminal branch: retype the streaming record, else fall through.
AddTerminal(table, action, sessionKey) ==
  LET streamingId == StreamingId(action.runId)
  IN  IF streamingId \in DOMAIN table
        THEN CollectionUpdate(table, streamingId,
               WithSessionKey(
                 [table[streamingId] EXCEPT
                    !.type      = action.type,
                    !.seq       = action.seq,
                    !.timestamp = action.timestamp],
                 sessionKey),
               "id")
        ELSE AddDefault(table, action, sessionKey)

\* actions table after addAction(action), map being runSessionMap after the
\* learn step.
AddActionResult(table, map, action) ==
  LET sessionKey == ResolveSessionKey(map, action)
  IN  IF action.type = "delta" THEN AddDelta(table, action, sessionKey)
      ELSE IF action.type \in TerminalTypes THEN AddTerminal(table, action, sessionKey)
      ELSE AddDefault(table, action, sessionKey)

\* ------------------------------------------------------------ variables
VARIABLES
  sessions,       \* sessionsCollection.state : key -> MonitorSession
  actions,        \* actionsCollection.state  : id  -> MonitorAction
  runSessionMap,  \* runId -> sessionKey learned so far
  now,            \* last value read from Date.now()
  last,           \* the last store call and its arguments
  page,           \* MonitorPage: connected, and the requests awaiting an answer
  hist            \* per run since the last clear: the contents of the deltas
                  \* received, and the concrete key seen after the streaming
                  \* record was created unresolved

vars == <<sessions, actions, runSessionMap, now, last, hist, page>>

Init ==
  /\ sessions = EmptyTable
  /\ actions = EmptyTable
  /\ runSessionMap = EmptyTable
  /\ now = 0
  /\ last = [op |-> "init"]
  /\ hist = [deltaLog |-> EmptyTable, pending |-> EmptyTable]
  /\ page = [connected |-> FALSE, connecting |-> FALSE, disconnecting |-> FALSE,
             loading |-> 0]

\* ----------------------------------------------------- session operations
\* upsertSession that replaces the stored session by the incoming object.
UpsertSessionReplace(table, session) ==
  LET key == GetKey(session, "key")
  IN  IF key \in DOMAIN table
        THEN CollectionUpdate(table, key, session, "key")
        ELSE CollectionInsert(table, session, "key")

\* upsertSession that keeps the status of a session already stored.
UpsertSessionKeepsStatus(table, session) ==
  LET key == GetKey(session, "key")
  IN  IF key \in DOMAIN table
        THEN CollectionUpdate(table, key,
               [ObjectAssign(table[key], session) EXCEPT !.status = table[key].status],
               "key")
        ELSE CollectionInsert(table, session, "key")

\* sessions table after upsertSession(session).
UpsertSessionResult(table, session) ==
  LET key == GetKey(session, "key")
  IN  IF key \in DOMAIN table
        THEN CollectionUpdate(table, key, ObjectAssign(table[key], session), "key")
        ELSE CollectionInsert(table, session, "key")

\* updateSessionStatus that creates the session when the key is unknown.
UpdateSessionStatusCreate(table, key, status, t) ==
  LET patch == [key |-> key, status |-> status, lastActivityAt |-> t]
  IN  IF key \in DOMAIN table
        THEN CollectionUpdate(table, key, ObjectAssign(table[key], patch), "key")
        ELSE CollectionInsert(table, patch, "key")

\* sessions table after updateSessionStatus(key, status) read at time t.
UpdateSessionStatusResult(table, key, status, t) ==
  IF key \in DOMAIN table
    THEN CollectionUpdate(table, key,
           ObjectAssign(table[key], [status |-> status, lastActivityAt |-> t]), "key")
    ELSE table

\* updateSession writing the merged draft back without the key check.
UpdateSessionUnchecked(table, key, update) ==
  IF key \in DOMAIN table
    THEN [table EXCEPT ![key] = ObjectAssign(table[key], update)]
    ELSE table

\* sessions table after updateSession(key, update).
UpdateSessionResult(table, key, update) ==
  IF key \in DOMAIN table
    THEN CollectionUpdate(table, key, ObjectAssign(table[key], update), "key")
    ELSE table

\* Session objects handed to upsertSession: the patch of a chat frame (its
\* sessionKey may be missing), a polled snapshot, or a bare status patch
\* with or without the key.
ChatStates == {"delta", "final"}

StatusPatches ==
  [key : SessionKeys, status : Statuses] \cup [status : Statuses]

\* Partial<MonitorSession> objects handed to updateSession.
UpdatePatches ==
  [status : Statuses] \cup [lastActivityAt : Times] \cup [key : SessionKeys]
    \cup [recipient : {"bob"}]

\* upsertSession(parseEventFrame(frame).session) for a chat frame.
UpsertFromChat ==
  \E k \in SessionKeys \cup {Undefined}, st \in ChatStates, t \in now..MaxTime :
    LET session == ChatSessionPatch(k, st, t)
    IN  /\ now' = t
        /\ sessions' = UpsertSessionResult(sessions, session)
        /\ last' = [op |-> "upsertSession", from |-> "chat", session |-> session]
        /\ UNCHANGED <<actions, runSessionMap, hist, page>>

\* loadSessions: upsertSession of one polled snapshot.
UpsertFromPoll ==
  \E info \in SessionInfos :
    LET session == SessionInfoToMonitor(info)
    IN  /\ sessions' = UpsertSessionResult(sessions, session)
        /\ last' = [op |-> "upsertSession", from |-> "poll", session |-> session]
        /\ UNCHANGED <<actions, runSessionMap, now, hist, page>>

\* upsertSession with a bare status patch.
UpsertStatusPatch ==
  \E session \in StatusPatches :
    /\ sessions' = UpsertSessionResult(sessions, session)
    /\ last' = [op |-> "upsertSession", from |-> "patch", session |-> session]
    /\ UNCHANGED <<actions, runSessionMap, now, hist, page>>

UpdateSessionStatus ==
  \E key \in SessionKeys, status \in Statuses, t \in now..MaxTime :
    /\ now' = t
    /\ sessions' = UpdateSessionStatusResult(sessions, key, status, t)
    /\ last' = [op |-> "updateSessionStatus", key |-> key, status |-> status]
    /\ UNCHANGED <<actions, runSessionMap, hist, page>>

UpdateSession ==
  \E key \in SessionKeys, update \in UpdatePatches :
    /\ sessions' = UpdateSessionResult(sessions, key, update)
    /\ last' = [op |-> "updateSession", key |-> key, update |-> update]
    /\ UNCHANGED <<actions, runSessionMap, now, hist, page>>

\* clearCollections that also forgets the runId -> sessionKey cache.
ClearCollectionsAndCache ==
  /\ sessions' = EmptyTable
  /\ actions' = EmptyTable
  /\ runSessionMap' = EmptyTable
  /\ last' = [op |-> "clearCollections"]
  /\ hist' = [deltaLog |-> EmptyTable, pending |-> EmptyTable]
  /\ UNCHANGED <<now, page>>

\* clearCollections: deletes every session and every action; the cache stays.
ClearCollections ==
  /\ sessions' = EmptyTable
  /\ actions' = EmptyTable
  /\ last' = [op |-> "clearCollections"]
  /\ hist' = [deltaLog |-> EmptyTable, pending |-> EmptyTable]
  /\ UNCHANGED <<runSessionMap, now, page>>

\* History kept beside addAction(action): the delta contents of the run, and
\* for a streaming record created with an unresolved key, the latest concrete
\* key an action of the run carried afterwards.
IsUnresolved(sessionKey) == ~Truthy(sessionKey) \/ sessionKey = Lifecycle

HistAfter(h, table, map, action) ==
  LET r == action.runId
      created == action.type = "delta" /\ StreamingId(r) \notin DOMAIN table
  IN  [deltaLog |->
         IF action.type = "delta"
           THEN Put(h.deltaLog, r,
                    (IF r \in DOMAIN h.deltaLog THEN h.deltaLog[r] ELSE <<>>)
                      \o <<action.content>>)
           ELSE h.deltaLog,
       pending |->
         IF created
           THEN IF IsUnresolved(action.sessionKey) /\ r \notin DOMAIN map
                  THEN Put(h.pending, r, Undefined)
                  ELSE h.pending
           ELSE IF r \in DOMAIN h.pending /\ ~IsUnresolved(action.sessionKey)
                  THEN Put(h.pending, r, action.sessionKey)
                  ELSE h.pending]

\* addAction that also creates a session for the key it resolved.
AddActionStepCreatesSession(action, t) ==
  LET map == LearnResult(runSessionMap, action)
      key == ResolveSessionKey(map, action)
  IN  /\ now' = t
      /\ runSessionMap' = map
      /\ actions' = AddActionResult(actions, map, action)
      /\ last' = [op |-> "addAction", action |-> action]
      /\ hist' = HistAfter(hist, actions, runSessionMap, action)
      /\ UNCHANGED page
      /\ sessions' = IF IsUnresolved(key) \/ key \in DOMAIN sessions
                       THEN sessions
                       ELSE CollectionInsert(sessions,
                              [key |-> key, status |-> "active", lastActivityAt |-> t],
                              "key")

\* The whole of addAction(action), called at clock tick t.
AddActionStep(action, t) ==
  LET map == LearnResult(runSessionMap, action)
  IN  /\ now' = t
      /\ runSessionMap' = map
      /\ actions' = AddActionResult(actions, map, action)
      /\ last' = [op |-> "addAction", action |-> action]
      /\ hist' = HistAfter(hist, actions, runSessionMap, action)
      /\ UNCHANGED <<sessions, page>>

\* addAction(action) for an action normalized at the next clock tick.
AddAction ==
  /\ now < MaxSteps
  /\ \E action \in ActionInputs(now + 1) : AddActionStep(action, now + 1)

\* addAction called again with the action of the call right before.
Redeliver ==
  /\ now < MaxSteps
  /\ last.op = "addAction"
  /\ AddActionStep(last.action, now + 1)

\* addAction(action) for an action of the session-key specification.
AddKeyedAction ==
  /\ now < MaxSteps
  /\ \E action \in KeyedInputs(now + 1) : AddActionStep(action, now + 1)

ActionNext ==
  \/ AddAction
  \/ Redeliver
  \/ ClearCollections

ActionSpec == Init /\ [][ActionNext]_vars

\* ------------------------------------------------------ event normalizer
\* A content block of a structured message; null is a block that is no object.
Block(type, text, name, input, content) ==
  [kind |-> "object", type |-> type, text |-> text, name |-> name,
   input |-> input, content |-> content]

NullBlock ==
  [kind |-> "null", type |-> Undefined, text |-> Undefined, name |-> Undefined,
   input |-> Undefined, content |-> Undefined]

TextBlock(text) == Block("text", text, Undefined, Undefined, Undefined)

ToolUseBlock == Block("tool_use", Undefined, "exec", "{cmd}", Undefined)

ToolResultBlock == Block("tool_result", Undefined, Undefined, Undefined, "ok")

\* The content arrays of the structured messages a chat frame may carry.
BlockLists ==
  {<<>>,
   <<TextBlock("Hel")>>,
   <<TextBlock("Hel"), TextBlock("lo ")>>,
   <<ToolUseBlock>>,
   <<ToolResultBlock>>,
   <<TextBlock("Hel"), ToolUseBlock>>,
   <<ToolUseBlock, ToolResultBlock>>,
   <<NullBlock, TextBlock("Hel")>>}

\* event.message: absent, a string, or an object with content and text.
Message(kind, value, content, text) ==
  [kind |-> kind, value |-> value, content |-> content, text |-> text]

NoContent == [kind |-> "undefined", value |-> Undefined, blocks |-> <<>>]

Messages ==
  {Message("undefined", Undefined, NoContent, Undefined),
   Message("string", "Hel", NoContent, Undefined),
   Message("object", Undefined, NoContent, Undefined),
   Message("object", Undefined, NoContent, "Hel"),
   Message("object", Undefined,
           [kind |-> "string", value |-> "Hel", blocks |-> <<>>], Undefined)}
  \cup {Message("object", Undefined,
                [kind |-> "array", value |-> Undefined, blocks |-> bs], Undefined) :
          bs \in BlockLists}

\* event.data of an agent event: absent, or an object with a type.
Data(type, name, input, content, text) ==
  [kind |-> "object", type |-> type, name |-> name, input |-> input,
   content |-> content, text |-> text]

NoData ==
  [kind |-> "undefined", type |-> Undefined, name |-> Undefined,
   input |-> Undefined, content |-> Undefined, text |-> Undefined]

AgentData ==
  {NoData,
   Data("tool_use", "exec", "{cmd}", Undefined, Undefined),
   Data("tool_use", Undefined, Undefined, Undefined, Undefined),
   Data("tool_result", Undefined, Undefined, "ok", Undefined),
   Data("text", Undefined, Undefined, Undefined, "Hel"),
   Data("usage", Undefined, Undefined, Undefined, Undefined)}

\* frame.payload, with the fields of a ChatEvent and of an AgentEvent; a
\* field the payload lacks is undefined.
Payload(runId, seq, sessionKey, state, message, errorMessage, stream, ts, data) ==
  [kind |-> "object", runId |-> runId, seq |-> seq, sessionKey |-> sessionKey,
   state |-> state, message |-> message, errorMessage |-> errorMessage,
   stream |-> stream, ts |-> ts, data |-> data]

NoPayload ==
  [kind |-> "undefined", runId |-> Undefined, seq |-> 0, sessionKey |-> Undefined,
   state |-> Undefined, message |-> Message("undefined", Undefined, NoContent, Undefined),
   errorMessage |-> Undefined, stream |-> Undefined, ts |-> 0, data |-> NoData]

\* ChatEvent payloads of run r1: a delta, or a terminal state, with every
\* message; an error may carry an errorMessage.
ChatEvents ==
  {Payload("r1", 1, "conv-1", st, m, e, Undefined, 0, NoData) :
     st \in {"delta"} \cup TerminalTypes, m \in Messages, e \in {Undefined}}
  \cup {Payload("r1", 1, "conv-1", "error", m, "boom", Undefined, 0, NoData) :
          m \in Messages}

\* AgentEvent payloads of run r1 sent at time t, with every data.
AgentEvents(t) ==
  {Payload("r1", 1, Undefined, Undefined,
           Message("undefined", Undefined, NoContent, Undefined), Undefined,
           Lifecycle, t, d) : d \in AgentData}

\* The frames the gateway may send at time t.
Frames(t) ==
  {[event |-> "chat", payload |-> p] : p \in ChatEvents}
  \cup {[event |-> "agent", payload |-> p] : p \in AgentEvents(t) \cup ChatEvents}
  \cup {[event |-> e, payload |-> NoPayload] : e \in {"chat", "agent", "presence"}}
  \cup {[event |-> "presence", payload |-> p] : p \in AgentEvents(t)}

\* The loop over msg.content: text blocks and string tool results are
\* collected, a tool block retypes the action.
RECURSIVE ScanBlocks(_, _, _)
ScanBlocks(blocks, action, texts) ==
  IF blocks = <<>> THEN [action |-> action, texts |-> texts]
  ELSE
    LET b == Head(blocks)
    IN  IF b.kind # "object" THEN ScanBlocks(Tail(blocks), action, texts)
        ELSE IF b.type = "text" /\ b.text # Undefined
          THEN ScanBlocks(Tail(blocks), action, Append(texts, b.text))
        ELSE IF b.type = "tool_use"
          THEN ScanBlocks(Tail(blocks),
                 [action EXCEPT !.type = "tool_call",
                                !.toolName = IF Truthy(b.name) THEN b.name ELSE "unknown",
                                !.toolArgs = b.input],
                 texts)
        ELSE IF b.type = "tool_result"
          THEN ScanBlocks(Tail(blocks),
                 [action EXCEPT !.type = "tool_result"],
                 IF b.content # Undefined THEN Append(texts, b.content) ELSE texts)
        ELSE ScanBlocks(Tail(blocks), action, texts)

\* texts.join('')
RECURSIVE Join(_)
Join(texts) == IF texts = <<>> THEN "" ELSE Head(texts) \o Join(Tail(texts))

\* chatEventToAction(event), with Date.now() read as t.
ChatEventToAction(event, t) ==
  LET action == [id         |-> NaturalId(event.runId, event.seq),
                 runId      |-> event.runId,
                 sessionKey |-> event.sessionKey,
                 seq        |-> event.seq,
                 type       |-> event.state,
                 eventType  |-> "chat",
                 timestamp  |-> t,
                 content    |-> Undefined,
                 toolName   |-> Undefined,
                 toolArgs   |-> Undefined]
      msg    == event.message
      scan   == ScanBlocks(msg.content.blocks, action, <<>>)
      withMessage ==
        IF msg.kind = "string" /\ msg.value # ""
          THEN [action EXCEPT !.content = msg.value]
        ELSE IF msg.kind = "object"
          THEN IF msg.content.kind = "array"
                 THEN IF Len(scan.texts) > 0
                        THEN [scan.action EXCEPT !.content = Join(scan.texts)]
                        ELSE scan.action
               ELSE IF msg.content.kind = "string"
                 THEN [action EXCEPT !.content = msg.content.value]
               ELSE IF msg.text # Undefined
                 THEN [action EXCEPT !.content = msg.text]
               ELSE action
        ELSE action
  IN  IF Truthy(event.errorMessage)
        THEN [withMessage EXCEPT !.content = event.errorMessage]
        ELSE withMessage

\* A call that raised instead of returning.
Threw(error) == [kind |-> "throw", error |-> error]

Returned(value) == [kind |-> "return", value |-> value]

\* agentEventToAction(event): reading data.type of an absent data raises a
\* TypeError.
AgentEventToAction(event) ==
  LET data == event.data
      toolName == IF Truthy(data.name) THEN data.name ELSE "unknown"
      action(type, content, name, args) ==
        [id         |-> NaturalId(event.runId, event.seq),
         runId      |-> event.runId,
         sessionKey |-> event.stream,
         seq        |-> event.seq,
         type       |-> type,
         eventType  |-> "agent",
         timestamp  |-> event.ts,
         content    |-> content,
         toolName   |-> name,
         toolArgs   |-> args]
  IN  IF data.kind = "undefined" THEN Threw("TypeError")
      ELSE IF data.type = "tool_use"
        THEN Returned(action("tool_call", "Tool: " \o toolName, toolName, data.input))
      ELSE IF data.type = "tool_result"
        THEN Returned(action("tool_result", OrEmpty(data.content), Undefined, Undefined))
      ELSE IF data.type = "text"
        THEN Returned(action("delta", OrEmpty(data.text), Undefined, Undefined))
      ELSE Returned(action("delta", Undefined, Undefined, Undefined))

\* The null that parseEventFrame returns for a frame it does not recognize.
Null == [kind |-> "null"]

\* parseEventFrame(frame), with Date.now() read as t: a result with an
\* action and, for a chat frame, a session patch; null; or a raised error.
ParseEventFrame(frame, t) ==
  IF frame.event = "chat" /\ frame.payload.kind # "undefined"
    THEN Returned([action  |-> ChatEventToAction(frame.payload, t),
                   session |-> ChatSessionPatch(frame.payload.sessionKey,
                                                frame.payload.state, t)])
  ELSE IF frame.event = "agent" /\ frame.payload.kind # "undefined"
    THEN LET agent == AgentEventToAction(frame.payload)
         IN  IF agent.kind = "throw" THEN agent
             ELSE Returned([action |-> agent.value])
  ELSE Null

\* A frame arrives: it is normalized and the produced action, if any, is
\* passed to addAction; a frame that yields null or raises changes no table.
HandleFrame ==
  /\ now <= MaxTime
  /\ \E frame \in Frames(now + 1) :
       LET result == ParseEventFrame(frame, now + 1)
       IN  /\ now' = now + 1
           /\ last' = [op |-> "parseEventFrame", frame |-> frame, result |-> result]
           /\ UNCHANGED <<sessions, page>>
           /\ IF result.kind = "return"
                THEN LET action == result.value.action
                         map    == LearnResult(runSessionMap, action)
                     IN  /\ runSessionMap' = map
                         /\ actions' = AddActionResult(actions, map, action)
                         /\ hist' = HistAfter(hist, actions, runSessionMap, action)
                ELSE UNCHANGED <<actions, runSessionMap, hist>>

FrameNext == HandleFrame

FrameSpec == Init /\ [][FrameNext]_vars

\* ------------------------------------------------------- graph projector
\* actions.slice(-50): the number of actions shown when no session is selected.
VisibleCap == 50

CRAB_NODE_ID == "crab-origin"

\* Keys of the sessions the graph is given.
GraphSessionKeys == {"conv-1", "conv-2"}

\* props.sessions: lists of sessions with distinct keys.
GraphSessions ==
  LET session(k) == [key |-> k, status |-> "idle"]
  IN  {<<>>, <<session("conv-1")>>,
       <<session("conv-1"), session("conv-2")>>,
       <<session("conv-2"), session("conv-1")>>}

\* props.selectedSession: null, or the key of a session.
Selections == {Undefined} \cup GraphSessionKeys

\* Records of the actions table the graph may be given: two tool calls of run
\* r1, the streaming record of r1 (open or closed, its seq that of either
\* tool call), and a tool call of run r2, each with any sessionKey.
GraphActions ==
  LET keys == {Lifecycle} \cup GraphSessionKeys
  IN  {MonitorAction(r[1], r[2], "tool_call", k, "Tool: exec", 0) :
         r \in {<<"r1", 1>>, <<"r1", 2>>, <<"r2", 1>>}, k \in keys}
      \cup {[MonitorAction("r1", q, ty, k, "Hel", 0) EXCEPT !.id = StreamingId("r1")] :
              q \in {1, 2}, ty \in {"delta", "final"}, k \in keys}

\* A list of n tool calls, alternating between the runs, every third one
\* with the sentinel key.
LongList(n) ==
  [i \in 1..n |->
     MonitorAction(IF i % 2 = 1 THEN "r1" ELSE "r2", i, "tool_call",
                   IF i % 3 = 0 THEN Lifecycle ELSE "conv-1", "Tool: exec", 0)]

\* props.actions: every list of at most MaxActions records with distinct ids,
\* and long lists around the cap.
GraphActionLists ==
  {as \in UNION {[1..n -> GraphActions] : n \in 0..MaxActions} :
     \A i, j \in 1..Len(as) : as[i].id = as[j].id => i = j}
  \cup {LongList(n) : n \in {VisibleCap - 1, VisibleCap, VisibleCap + MaxActions}}

\* list.slice(-n)
SliceLast(list, n) ==
  IF Len(list) <= n THEN list ELSE SubSeq(list, Len(list) - n + 1, Len(list))

\* visibleActions that shows every action when no session is selected.
VisibleActionsUncapped(actions_, selectedSession) ==
  IF ~Truthy(selectedSession)
    THEN actions_
    ELSE SelectSeq(actions_, LAMBDA a : a.sessionKey = selectedSession)

\* visibleActions: the last 50 actions, or the actions of the selected session.
VisibleActions(actions_, selectedSession) ==
  IF ~Truthy(selectedSession)
    THEN SliceLast(actions_, VisibleCap)
    ELSE SelectSeq(actions_, LAMBDA a : a.sessionKey = selectedSession)

\* visibleSessions: the selected session, or every session.
VisibleSessions(sessions_, selectedSession) ==
  IF Truthy(selectedSession)
    THEN SelectSeq(sessions_, LAMBDA s : s.key = selectedSession)
    ELSE sessions_

SessionNodeId(key) == "session-" \o key

ActionNodeId(id) == "action-" \o id

\* rawNodes: the crab node, a node per visible session, a node per visible
\* action.
RawNodes(sessions_, actions_, selectedSession) ==
  LET visibleActions  == VisibleActions(actions_, selectedSession)
      visibleSessions == VisibleSessions(sessions_, selectedSession)
  IN  <<[id |-> CRAB_NODE_ID, type |-> "crab",
         data |-> [active |-> Len(sessions_) > 0 \/ Len(visibleActions) > 0]]>>
      \o [i \in 1..Len(visibleSessions) |->
            [id |-> SessionNodeId(visibleSessions[i].key), type |-> "session",
             data |-> visibleSessions[i]]]
      \o [i \in 1..Len(visibleActions) |->
            [id |-> ActionNodeId(visibleActions[i].id), type |-> "action",
             data |-> visibleActions[i]]]

\* The keys of the Map runActions, in insertion order.
RECURSIVE RunOrder(_, _)
RunOrder(visibleActions, seen) ==
  IF visibleActions = <<>> THEN seen
  ELSE IF \E i \in 1..Len(seen) : seen[i] = Head(visibleActions).runId
    THEN RunOrder(Tail(visibleActions), seen)
    ELSE RunOrder(Tail(visibleActions), Append(seen, Head(visibleActions).runId))

\* [...runActs].sort((a, b) => a.seq - b.seq): a stable sort of a copy.
RECURSIVE InsertBySeq(_, _)
InsertBySeq(sorted, a) ==
  IF sorted = <<>> THEN <<a>>
  ELSE IF Head(sorted).seq <= a.seq
    THEN <<Head(sorted)>> \o InsertBySeq(Tail(sorted), a)
    ELSE <<a>> \o sorted

RECURSIVE SortBySeq(_, _)
SortBySeq(sorted, rest) ==
  IF rest = <<>> THEN sorted
  ELSE SortBySeq(InsertBySeq(sorted, Head(rest)), Tail(rest))

\* An edge of the graph; an edge without the animated property is not animated.
Edge(id, source, target, animated) ==
  [id |-> id, source |-> source, target |-> target, animated |-> animated]

\* The session -> action edge emitted whatever session nodes exist.
SessionEdgeUnchecked(runId, first, sessionNodeIds) ==
  <<Edge("e-session-" \o runId, SessionNodeId(first.sessionKey),
         ActionNodeId(first.id), first.type = "delta")>>

\* The session -> action edge of a run, emitted only if the session node of
\* its first action exists.
SessionEdge(runId, first, sessionNodeIds) ==
  IF SessionNodeId(first.sessionKey) \in sessionNodeIds
    THEN <<Edge("e-session-" \o runId, SessionNodeId(first.sessionKey),
                ActionNodeId(first.id), first.type = "delta")>>
    ELSE <<>>

\* The edges of one run with the chain in list order, the sort left out.
RunEdgesUnsorted(runId, visibleActions, sessionNodeIds) ==
  LET runActs == SelectSeq(visibleActions, LAMBDA a : a.runId = runId)
  IN  SessionEdge(runId, runActs[1], sessionNodeIds)
      \o [i \in 1..(Len(runActs) - 1) |->
            Edge("e-" \o runActs[i].id \o "-" \o runActs[i + 1].id,
                 ActionNodeId(runActs[i].id), ActionNodeId(runActs[i + 1].id),
                 runActs[i + 1].type = "delta")]

\* The edges of one run: its session edge and the chain through its actions
\* in seq order.
RunEdges(runId, visibleActions, sessionNodeIds) ==
  LET runActs == SelectSeq(visibleActions, LAMBDA a : a.runId = runId)
      sorted  == SortBySeq(<<>>, runActs)
  IN  SessionEdge(runId, sorted[1], sessionNodeIds)
      \o [i \in 1..(Len(sorted) - 1) |->
            Edge("e-" \o sorted[i].id \o "-" \o sorted[i + 1].id,
                 ActionNodeId(sorted[i].id), ActionNodeId(sorted[i + 1].id),
                 sorted[i + 1].type = "delta")]

RECURSIVE Flatten(_)
Flatten(lists) ==
  IF lists = <<>> THEN <<>> ELSE Head(lists) \o Flatten(Tail(lists))

\* rawEdges that connects the crab to every session, visible or not.
RawEdgesAllSessions(sessions_, actions_, selectedSession) ==
  LET visibleActions  == VisibleActions(actions_, selectedSession)
      visibleSessions == VisibleSessions(sessions_, selectedSession)
      sessionNodeIds  == {SessionNodeId(visibleSessions[i].key) :
                            i \in 1..Len(visibleSessions)}
      runs            == RunOrder(visibleActions, <<>>)
  IN  [i \in 1..Len(sessions_) |->
         Edge("e-crab-" \o sessions_[i].key, CRAB_NODE_ID,
              SessionNodeId(sessions_[i].key), FALSE)]
      \o Flatten([i \in 1..Len(runs) |->
                    RunEdges(runs[i], visibleActions, sessionNodeIds)])

\* rawEdges: crab -> session for every visible session, then the edges of
\* every run in the order the runs first appear.
RawEdges(sessions_, actions_, selectedSession) ==
  LET visibleActions  == VisibleActions(actions_, selectedSession)
      visibleSessions == VisibleSessions(sessions_, selectedSession)
      sessionNodeIds  == {SessionNodeId(visibleSessions[i].key) :
                            i \in 1..Len(visibleSessions)}
      runs            == RunOrder(visibleActions, <<>>)
  IN  [i \in 1..Len(visibleSessions) |->
         Edge("e-crab-" \o visibleSessions[i].key, CRAB_NODE_ID,
              SessionNodeId(visibleSessions[i].key), FALSE)]
      \o Flatten([i \in 1..Len(runs) |->
                    RunEdges(runs[i], visibleActions, sessionNodeIds)])

\* The component is mounted with its props.
Mount ==
  /\ last.op = "init"
  /\ \E ss \in GraphSessions, as \in GraphActionLists, sel \in Selections :
       last' = [op |-> "props", sessions |-> ss, actions |-> as,
                selectedSession |-> sel]
  /\ UNCHANGED <<sessions, actions, runSessionMap, now, hist, page>>

\* The memoized rawNodes and rawEdges are computed from the props.
Render ==
  /\ last.op = "props"
  /\ last' = [op              |-> "ActionGraph",
              sessions        |-> last.sessions,
              actions         |-> last.actions,
              selectedSession |-> last.selectedSession,
              nodes |-> RawNodes(last.sessions, last.actions, last.selectedSession),
              edges |-> RawEdges(last.sessions, last.actions, last.selectedSession)]
  /\ UNCHANGED <<sessions, actions, runSessionMap, now, hist, page>>

\* onNodeClick on a session node: the selection toggles and the component
\* gets the new prop.
SelectSession ==
  /\ last.op = "ActionGraph"
  /\ \E i \in 1..Len(last.nodes) :
       /\ last.nodes[i].type = "session"
       /\ last' = [op |-> "props", sessions |-> last.sessions,
                   actions |-> last.actions,
                   selectedSession |->
                     IF last.selectedSession = last.nodes[i].data.key
                       THEN Undefined ELSE last.nodes[i].data.key]
  /\ UNCHANGED <<sessions, actions, runSessionMap, now, hist, page>>

GraphNext ==
  \/ Mount
  \/ Render
  \/ SelectSession

GraphSpec == Init /\ [][GraphNext]_vars

\* addAction(action) for an action of the store specification.
AddStoreAction ==
  /\ now < MaxSteps
  /\ \E action \in StoreInputs(now + 1) : AddActionStep(action, now + 1)

\* The interval poll fires at the next clock tick: loadSessions upserts one
\* polled snapshot.
PollSessions ==
  /\ now < MaxSteps
  /\ \E info \in SessionInfos :
       LET session == SessionInfoToMonitor(info)
       IN  /\ now' = now + 1
           /\ sessions' = UpsertSessionResult(sessions, session)
           /\ last' = [op |-> "upsertSession", from |-> "poll", session |-> session]
           /\ UNCHANGED <<actions, runSessionMap, hist, page>>

\* ---------------------------------------------------------- monitor page
\* result.sessions of a sessions query: snapshots with distinct keys.
PollResults ==
  {infos \in SUBSET SessionInfos :
     \A i, j \in infos : i.key = j.key => i = j}

\* The loop of loadSessions: upsertSession for every session of the result.
RECURSIVE UpsertAll(_, _)
UpsertAll(table, infos) ==
  IF infos = {} THEN table
  ELSE LET info == CHOOSE i \in infos : TRUE
       IN  UpsertAll(UpsertSessionResult(table, SessionInfoToMonitor(info)),
                     infos \ {info})

\* handleConnect up to its await: the connect mutation is sent.
HandleConnect ==
  /\ ~page.connected /\ ~page.connecting
  /\ page' = [page EXCEPT !.connecting = TRUE]
  /\ last' = [op |-> "handleConnect"]
  /\ UNCHANGED <<sessions, actions, runSessionMap, now, hist>>

\* The connect mutation answers: connected is set and loadSessions is
\* called, or the error is shown.
ConnectReturns ==
  /\ page.connecting
  /\ \E ok \in BOOLEAN :
       /\ ok => page.loading < MaxPending
       /\ page' = IF ok
                    THEN [page EXCEPT !.connecting = FALSE, !.connected = TRUE,
                                      !.loading = @ + 1]
                    ELSE [page EXCEPT !.connecting = FALSE]
       /\ last' = [op |-> "connect", ok |-> ok]
  /\ UNCHANGED <<sessions, actions, runSessionMap, now, hist>>

\* The 5-second interval, which exists while connected, calls loadSessions:
\* the sessions query is sent.
PollTick ==
  /\ page.connected
  /\ page.loading < MaxPending
  /\ page' = [page EXCEPT !.loading = @ + 1]
  /\ last' = [op |-> "poll"]
  /\ UNCHANGED <<sessions, actions, runSessionMap, now, hist>>

\* A sessions query answers: loadSessions upserts its sessions; a failed
\* query is logged.
LoadSessionsReturns ==
  /\ page.loading > 0
  /\ \E ok \in BOOLEAN, infos \in PollResults :
       /\ ~ok => infos = {}
       /\ sessions' = UpsertAll(sessions, infos)
       /\ last' = [op |-> "loadSessions", ok |-> ok, result |-> infos]
  /\ page' = [page EXCEPT !.loading = @ - 1]
  /\ UNCHANGED <<actions, runSessionMap, now, hist>>

\* handleDisconnect up to its await: the disconnect mutation is sent.
HandleDisconnect ==
  /\ page.connected /\ ~page.disconnecting
  /\ page' = [page EXCEPT !.disconnecting = TRUE]
  /\ last' = [op |-> "handleDisconnect"]
  /\ UNCHANGED <<sessions, actions, runSessionMap, now, hist>>

\* The disconnect mutation answers: setConnected(false) and
\* clearCollections(), or the catch that only logs.
DisconnectReturns ==
  /\ page.disconnecting
  /\ \E ok \in BOOLEAN :
       /\ last' = [op |-> "disconnect", ok |-> ok]
       /\ IF ok
            THEN /\ page' = [page EXCEPT !.disconnecting = FALSE, !.connected = FALSE]
                 /\ sessions' = EmptyTable
                 /\ actions' = EmptyTable
                 /\ hist' = [deltaLog |-> EmptyTable, pending |-> EmptyTable]
            ELSE /\ page' = [page EXCEPT !.disconnecting = FALSE]
                 /\ UNCHANGED <<sessions, actions, hist>>
  /\ UNCHANGED <<runSessionMap, now>>

MonitorNext ==
  \/ HandleConnect
  \/ ConnectReturns
  \/ PollTick
  \/ LoadSessionsReturns
  \/ HandleDisconnect
  \/ DisconnectReturns

MonitorSpec == Init /\ [][MonitorNext]_vars

\* The actions of run r1 addAction may receive in the table specification.
TableInputs(t) == {action \in StoreInputs(t) : action.runId = "r1"}

\* addAction(action) for an action of the table specification.
AddTableAction ==
  /\ now < MaxSteps
  /\ \E action \in TableInputs(now + 1) : AddActionStep(action, now + 1)

\* updateSessionStatus(key, status), Date.now() being the next clock tick.
TouchSessionStatus ==
  /\ now < MaxSteps
  /\ \E key \in SessionKeys, status \in {"thinking", "active"} :
       /\ now' = now + 1
       /\ sessions' = UpdateSessionStatusResult(sessions, key, status, now + 1)
       /\ last' = [op |-> "updateSessionStatus", key |-> key, status |-> status]
       /\ UNCHANGED <<actions, runSessionMap, hist, page>>

\* updateSession(key, update) at the next clock tick, with a patch of the
\* status, of the recipient, or of the key.
PatchSession ==
  /\ now < MaxSteps
  /\ \E key \in SessionKeys,
        update \in [status : {"active"}] \cup [recipient : {"bob"}]
                     \cup [key : SessionKeys] :
       /\ now' = now + 1
       /\ sessions' = UpdateSessionResult(sessions, key, update)
       /\ last' = [op |-> "updateSession", key |-> key, update |-> update]
       /\ UNCHANGED <<actions, runSessionMap, hist, page>>

TableNext ==
  \/ AddTableAction
  \/ PollSessions
  \/ TouchSessionStatus
  \/ PatchSession
  \/ ClearCollections

TableSpec == Init /\ [][TableNext]_vars

StoreNext ==
  \/ AddStoreAction
  \/ PollSessions
  \/ ClearCollections

StoreSpec == Init /\ [][StoreNext]_vars

KeyNext ==
  \/ AddKeyedAction
  \/ ClearCollections

KeySpec == Init /\ [][KeyNext]_vars

SessionNext ==
  \/ UpsertFromChat
  \/ UpsertFromPoll
  \/ UpsertStatusPatch
  \/ UpdateSessionStatus
  \/ UpdateSession
  \/ ClearCollections

SessionSpec == Init /\ [][SessionNext]_vars

Next ==
  \/ SessionNext
  \/ ActionNext
  \/ KeyNext
  \/ StoreNext
  \/ FrameNext
  \/ GraphNext
  \/ TableNext
  \/ MonitorNext

Spec == Init /\ [][Next]_vars

\* ------------------------------------------------------ session claims
HasKey(session) == GetKey(session, "key") # Undefined

\* The session an upsert is aimed at: the one its key names or, for an
\* object of only a status field, the one named by the upsert right before it.
UpsertTarget(prev, cur) ==
  IF HasKey(cur.session) THEN cur.session.key
  ELSE IF DOMAIN cur.session = {"status"} /\ prev.op = "upsertSession"
    THEN GetKey(prev.session, "key")
  ELSE Undefined

\* table[k] is old shallow-merged with patch, and no entry came or went.
MergedInto(old, new, k, patch) ==
  /\ DOMAIN new = DOMAIN old
  /\ DOMAIN new[k] = (DOMAIN old[k]) \cup (DOMAIN patch)
  /\ \A f \in DOMAIN patch : new[k][f] = patch[f]
  /\ \A f \in (DOMAIN old[k]) \ (DOMAIN patch) : new[k][f] = old[k][f]

C7_OneSessionPerKey ==
  \A k \in DOMAIN sessions :
    "key" \in DOMAIN sessions[k] /\ sessions[k].key = k

\* updateSession was called on a known session with a patch naming another key.
C7_Witness ==
  /\ last.op = "updateSession"
  /\ last.key \in DOMAIN sessions
  /\ "key" \in DOMAIN last.update
  /\ last.update.key # last.key

\* C9 as stated: lastActivityAt of a session never decreases while it exists.
C9_LastActivityMonotone ==
  [][\A k \in (DOMAIN sessions) \cap (DOMAIN sessions') :
       ("lastActivityAt" \in DOMAIN sessions[k] /\ "lastActivityAt" \in DOMAIN sessions'[k])
         => sessions'[k].lastActivityAt >= sessions[k].lastActivityAt]_vars

\* C10: updateSession and updateSessionStatus on an unknown key change
\* nothing; updateSessionStatus on a known key sets status and lastActivityAt
\* (to the time just read) and nothing else.
C10_UnknownKeyNoOp ==
  [][/\ (last'.op \in {"updateSession", "updateSessionStatus"}
           /\ last'.key \notin DOMAIN sessions)
          => (sessions' = sessions /\ actions' = actions
                /\ runSessionMap' = runSessionMap)
     /\ (last'.op = "updateSessionStatus" /\ last'.key \in DOMAIN sessions)
          => (/\ DOMAIN sessions' = DOMAIN sessions
              /\ sessions'[last'.key].status = last'.status
              /\ sessions'[last'.key].lastActivityAt = now'
              /\ now' >= now
              /\ DOMAIN sessions'[last'.key]
                   = (DOMAIN sessions[last'.key]) \cup {"status", "lastActivityAt"}
              /\ \A f \in (DOMAIN sessions[last'.key]) \ {"status", "lastActivityAt"} :
                   sessions'[last'.key][f] = sessions[last'.key][f]
              /\ \A k \in (DOMAIN sessions) \ {last'.key} : sessions'[k] = sessions[k])]_vars

\* updateSessionStatus was called with an unknown key while another session exists.
C10_Witness ==
  /\ last.op = "updateSessionStatus"
  /\ last.key \notin DOMAIN sessions
  /\ sessions # EmptyTable

\* ------------------------------------------------------- action claims
RECURSIVE Concat(_)
\* The contents of a delta log joined in order, undefined counting as "".
Concat(log) ==
  IF log = <<>> THEN "" ELSE OrEmpty(Head(log)) \o Concat(Tail(log))

IsAdd(l) == l.op = "addAction"

IsTerminalAdd(l) == IsAdd(l) /\ l.action.type \in TerminalTypes

\* C1: for every run that received deltas since the last clear, the table
\* holds a record at `${runId}-stream` whose content is the concatenation of
\* the deltas' contents in arrival order (undefined counting as "").
C1_StreamingAggregation ==
  \A r \in DOMAIN hist.deltaLog :
    /\ StreamingId(r) \in DOMAIN actions
    /\ actions[StreamingId(r)].id = StreamingId(r)
    /\ actions[StreamingId(r)].runId = r
    /\ OrEmpty(actions[StreamingId(r)].content) = Concat(hist.deltaLog[r])

\* Two deltas "Hel", "lo " of r1 were aggregated and another action followed.
C1_Witness ==
  /\ "r1" \in DOMAIN hist.deltaLog
  /\ hist.deltaLog["r1"] = <<"Hel", "lo ">>
  /\ actions[StreamingId("r1")].content = "Hello "
  /\ IsAdd(last) /\ last.action.type # "delta"

\* C2: a terminal action for a run whose streaming record exists leaves the
\* set of stored ids unchanged and gives the record at `${runId}-stream`,
\* whose id stays, the incoming terminal type.
C2_LifecycleIdentity ==
  [][(IsTerminalAdd(last') /\ StreamingId(last'.action.runId) \in DOMAIN actions)
       => LET sid == StreamingId(last'.action.runId)
          IN  /\ DOMAIN actions' = DOMAIN actions
              /\ actions'[sid].id = sid
              /\ actions'[sid].type = last'.action.type
              /\ \A id \in (DOMAIN actions) \ {sid} : actions'[id] = actions[id]]_vars

\* A final has retyped the streaming record of its run; nothing is stored
\* under the final's natural id.
C2_Witness ==
  /\ IsAdd(last) /\ last.action.type = "final"
  /\ StreamingId(last.action.runId) \in DOMAIN actions
  /\ actions[StreamingId(last.action.runId)].type = "final"
  /\ actions[StreamingId(last.action.runId)].content = "Hel"
  /\ last.action.id \notin DOMAIN actions

\* The action goes through the default branch: a tool action, or a terminal
\* whose run has no streaming record.
TakesDefaultBranch(table, action) ==
  \/ action.type \in ToolTypes
  \/ action.type \in TerminalTypes /\ StreamingId(action.runId) \notin DOMAIN table

\* C3: a second addAction with the same tool_call, tool_result or orphaned
\* terminal right after the first leaves the actions table as the first left
\* it, with a record stored under the action's id.
C3_IdempotentRedelivery ==
  [][(IsAdd(last) /\ IsAdd(last') /\ last'.action = last.action
        /\ TakesDefaultBranch(actions, last.action))
       => (actions' = actions /\ last.action.id \in DOMAIN actions')]_vars

\* The same tool_call was delivered twice in a row and is stored once.
C3_Witness ==
  /\ IsAdd(last) /\ last.action.type = "tool_call"
  /\ last.action.timestamp < now
  /\ DOMAIN actions = {last.action.id}
  /\ actions[last.action.id] = last.action

\* C4 as stated: once the streaming record of a run was created unresolved
\* and a later action of the run carried a concrete key k, the next delta of
\* the run without a key of its own leaves the record with sessionKey = k.
C4_RetroactiveResolution ==
  [][(/\ IsAdd(last') /\ last'.action.type = "delta"
      /\ IsUnresolved(last'.action.sessionKey)
      /\ last'.action.runId \in DOMAIN hist.pending
      /\ hist.pending[last'.action.runId] # Undefined)
       => (/\ StreamingId(last'.action.runId) \in DOMAIN actions
           /\ actions'[StreamingId(last'.action.runId)].sessionKey
                = hist.pending[last'.action.runId])]_vars

\* C5 as stated: a terminal action for a run without a streaming record
\* always inserts one record, under its natural id and with its type.
C5_OrphanAlwaysInserted ==
  [][(IsTerminalAdd(last') /\ StreamingId(last'.action.runId) \notin DOMAIN actions)
       => (/\ Cardinality(DOMAIN actions') = Cardinality(DOMAIN actions) + 1
           /\ last'.action.id \in DOMAIN actions'
           /\ actions'[last'.action.id].type = last'.action.type
           /\ StreamingId(last'.action.runId) \notin DOMAIN actions')]_vars

\* C5 amended: a terminal action for a run without a streaming record, whose
\* natural id is not stored yet, inserts exactly one record, under that id
\* and with the incoming terminal type, and creates no streaming record.
C5_OrphanedTerminal ==
  [][(/\ IsTerminalAdd(last')
      /\ StreamingId(last'.action.runId) \notin DOMAIN actions
      /\ last'.action.id \notin DOMAIN actions)
       => (/\ DOMAIN actions' = (DOMAIN actions) \cup {last'.action.id}
           /\ actions'[last'.action.id].id = last'.action.id
           /\ actions'[last'.action.id].type = last'.action.type
           /\ \A id \in DOMAIN actions : actions'[id] = actions[id]
           /\ StreamingId(last'.action.runId) \notin DOMAIN actions')]_vars

\* An error for a run that never sent a delta is the only stored action.
C5_Witness ==
  /\ IsAdd(last) /\ last.action.type = "error"
  /\ DOMAIN actions = {last.action.id}
  /\ actions[last.action.id].type = "error"
  /\ last.action.runId \notin DOMAIN hist.deltaLog

\* C8: a record of type delta is stored at the streaming id of its own run,
\* and a record at a streaming id is a delta or a terminal of that run.
C8_OneStreamPerRun ==
  /\ \A id \in DOMAIN actions :
       actions[id].type = "delta" => id = StreamingId(actions[id].runId)
  /\ \A r \in RunIds :
       StreamingId(r) \in DOMAIN actions
         => /\ actions[StreamingId(r)].type \in {"delta"} \cup TerminalTypes
            /\ actions[StreamingId(r)].runId = r

\* One run is streaming, the other was terminalized, a tool action is stored.
C8_Witness ==
  /\ StreamingId("r1") \in DOMAIN actions
  /\ StreamingId("r2") \in DOMAIN actions
  /\ actions[StreamingId("r1")].type = "delta"
  /\ actions[StreamingId("r2")].type = "aborted"

\* The record addAction stored or updated for the action: the streaming
\* record for a delta, the record at the natural id otherwise.
StoredId(action) ==
  IF action.type = "delta" THEN StreamingId(action.runId) ELSE action.id

\* C11: clearCollections empties both tables and leaves the cache as it was;
\* a delta or tool action without a key of its own, first after the clear and
\* for a run learned before it, is stored with the cached session key.
C11_ClearKeepsCache ==
  [][/\ last'.op = "clearCollections"
          => (/\ sessions' = EmptyTable
              /\ actions' = EmptyTable
              /\ runSessionMap' = runSessionMap)
     /\ (/\ last.op = "clearCollections" /\ IsAdd(last')
         /\ last'.action.type \in {"delta"} \cup ToolTypes
         /\ IsUnresolved(last'.action.sessionKey)
         /\ last'.action.runId \in DOMAIN runSessionMap)
          => (/\ DOMAIN actions' = {StoredId(last'.action)}
              /\ actions'[StoredId(last'.action)].sessionKey
                   = runSessionMap[last'.action.runId])]_vars

\* After a clear that removed a session and the record that taught the key,
\* a sentinel-keyed delta of the run is stored with the cached key.
C11_Witness ==
  /\ IsAdd(last) /\ last.action.type = "delta"
  /\ last.action.sessionKey = Lifecycle
  /\ sessions = EmptyTable
  /\ now = 3
  /\ DOMAIN actions = {StreamingId(last.action.runId)}
  /\ actions[StreamingId(last.action.runId)].sessionKey = "conv-1"
  /\ hist.deltaLog[last.action.runId] = <<"Hel">>

\* C16 as stated: after addAction with a sessionKey that is present and is
\* not exactly the sentinel, the cache maps the runId to that sessionKey.
C16_LearnStep ==
  [][(IsAdd(last') /\ Truthy(last'.action.sessionKey)
        /\ last'.action.sessionKey # Lifecycle)
       => (/\ last'.action.runId \in DOMAIN runSessionMap'
           /\ runSessionMap'[last'.action.runId] = last'.action.sessionKey)]_vars

\* C17: a terminal action that updates a streaming record changes only its
\* type, seq, timestamp and, for a concrete resolved key, sessionKey; the
\* content of the terminal action is not stored and no other record changes.
C17_TerminalizationFrame ==
  [][(IsTerminalAdd(last') /\ StreamingId(last'.action.runId) \in DOMAIN actions)
       => LET sid == StreamingId(last'.action.runId)
              key == ResolveSessionKey(runSessionMap', last'.action)
          IN  /\ DOMAIN actions' = DOMAIN actions
              /\ \A f \in (DOMAIN actions[sid])
                            \ {"type", "seq", "timestamp", "sessionKey"} :
                   actions'[sid][f] = actions[sid][f]
              /\ actions'[sid].content = actions[sid].content
              /\ actions'[sid].seq = last'.action.seq
              /\ actions'[sid].timestamp = last'.action.timestamp
              /\ actions'[sid].sessionKey
                   = IF IsUnresolved(key) THEN actions[sid].sessionKey ELSE key
              /\ \A id \in (DOMAIN actions) \ {sid} : actions'[id] = actions[id]]_vars

\* An error carrying "boom" closed a streaming record whose content stays
\* "Hel"; "boom" is stored nowhere.
C17_Witness ==
  /\ IsAdd(last) /\ last.action.type = "error" /\ last.action.content = "boom"
  /\ StreamingId(last.action.runId) \in DOMAIN actions
  /\ actions[StreamingId(last.action.runId)].type = "error"
  /\ actions[StreamingId(last.action.runId)].content = "Hel"
  /\ \A id \in DOMAIN actions : actions[id].content # "boom"

\* The action takes the default branch and its natural id is already stored.
IsDroppedAdd(table, l) ==
  /\ IsAdd(l)
  /\ TakesDefaultBranch(table, l.action)
  /\ l.action.id \in DOMAIN table

\* C18 as stated: a default-branch action whose natural id is stored changes
\* neither the actions table, nor the sessions table, nor the cache.
C18_DroppedActionChangesNothing ==
  [][IsDroppedAdd(actions, last')
       => (/\ actions' = actions
           /\ sessions' = sessions
           /\ runSessionMap' = runSessionMap)]_vars

\* C18 amended: a default-branch action whose natural id is stored leaves the
\* actions table (the first record wins) and the sessions table as they
\* were; the cache changes only by the learn step, which still records a
\* concrete key of the dropped action.
C18_DefaultBranchNoOp ==
  [][IsDroppedAdd(actions, last')
       => (/\ actions' = actions
           /\ sessions' = sessions
           /\ runSessionMap' = LearnResult(runSessionMap, last'.action)
           /\ IsUnresolved(last'.action.sessionKey)
                => runSessionMap' = runSessionMap)]_vars

\* A tool_result was dropped because its id holds a tool_call stored earlier
\* with another content and sessionKey, while a session exists.
C18_Witness ==
  /\ IsAdd(last) /\ last.action.type = "tool_result"
  /\ last.action.sessionKey = "conv-1"
  /\ last.action.id \in DOMAIN actions
  /\ actions[last.action.id].type = "tool_call"
  /\ actions[last.action.id].content = "Tool: exec"
  /\ actions[last.action.id].sessionKey = Undefined
  /\ sessions # EmptyTable

\* C19 as stated: once the streaming record of a run has a terminal type it
\* is the only record of the run whose type is delta or terminal.
C19_SingleRecordOfRecord ==
  \A r \in RunIds :
    (StreamingId(r) \in DOMAIN actions
       /\ actions[StreamingId(r)].type \in TerminalTypes)
      => \A id \in (DOMAIN actions) \ {StreamingId(r)} :
           actions[id].runId = r
             => actions[id].type \notin {"delta"} \cup TerminalTypes

\* The frame handled last was recognized: 'chat' or 'agent' with a payload.
IsParse(l) == l.op = "parseEventFrame"

\* C12 as stated: parseEventFrame never raises; it returns null for an
\* unknown event or a missing payload, and a value or null for a chat or
\* agent frame whose payload lacks fields.
C12_NormalizerNeverFails ==
  IsParse(last)
    => /\ last.result.kind # "throw"
       /\ (last.frame.event \notin {"chat", "agent"}
             \/ last.frame.payload.kind = "undefined")
            => last.result = Null

\* C20 as stated: a chat frame with a terminal state for a run that has a
\* streaming record leaves that record with the terminal type, whatever the
\* shape of its message.
C20_TerminalClosure ==
  [][(/\ IsParse(last')
      /\ last'.frame.event = "chat"
      /\ last'.frame.payload.kind = "object"
      /\ last'.frame.payload.state \in TerminalTypes
      /\ StreamingId(last'.frame.payload.runId) \in DOMAIN actions)
       => actions'[StreamingId(last'.frame.payload.runId)].type
            = last'.frame.payload.state]_vars

\* ---------------------------------------------------------- graph claims
IsProjection(l) == l.op = "ActionGraph"

\* The records shown as action nodes, in node order.
ShownActions(l) ==
  LET shown == SelectSeq(l.nodes, LAMBDA n : n.type = "action")
  IN  [i \in 1..Len(shown) |-> shown[i].data]

EdgeIds(l) == {l.edges[i].id : i \in 1..Len(l.edges)}

NodeIds(l) == {l.nodes[i].id : i \in 1..Len(l.nodes)}

\* The first of a run among the shown actions: lowest seq, the earliest
\* shown of those with that seq.
IsFirstOfRun(shown, i) ==
  \A j \in 1..Len(shown) :
    (j # i /\ shown[j].runId = shown[i].runId)
      => \/ shown[i].seq < shown[j].seq
         \/ (shown[i].seq = shown[j].seq /\ i < j)

\* C13: the edge e-session-<runId> is emitted exactly when the session node
\* of the run's first visible action is emitted, and then leads from that
\* node to that action; with or without it every visible action of the run
\* has its node and the run has its n-1 chain edges.
C13_GraphSkip ==
  IsProjection(last)
    => LET shown == ShownActions(last)
       IN  \A i \in 1..Len(shown) :
             IsFirstOfRun(shown, i)
               => LET r       == shown[i].runId
                      count   == Cardinality({j \in 1..Len(shown) : shown[j].runId = r})
                      chain   == {k \in 1..Len(last.edges) :
                                    \E a, b \in 1..Len(shown) :
                                      /\ shown[a].runId = r /\ shown[b].runId = r
                                      /\ last.edges[k].source = ActionNodeId(shown[a].id)
                                      /\ last.edges[k].target = ActionNodeId(shown[b].id)}
                      present == {k \in 1..Len(last.edges) :
                                    last.edges[k].id = "e-session-" \o r}
                  IN  /\ (present # {})
                           <=> (\E n \in 1..Len(last.nodes) :
                                  /\ last.nodes[n].type = "session"
                                  /\ last.nodes[n].id = SessionNodeId(shown[i].sessionKey))
                      /\ \A k \in present :
                           /\ last.edges[k].source = SessionNodeId(shown[i].sessionKey)
                           /\ last.edges[k].target = ActionNodeId(shown[i].id)
                      /\ Cardinality(present) <= 1
                      /\ Cardinality(chain) = count - 1

\* With no session selected a run of two visible actions, the first with the
\* sentinel key, has its chain edge and both nodes but no session edge,
\* while a session node exists.
C13_Witness ==
  /\ IsProjection(last)
  /\ last.selectedSession = Undefined
  /\ Len(last.sessions) = 2
  /\ Len(last.actions) = 2
  /\ last.actions[1].id = "r1-2" /\ last.actions[1].sessionKey = "conv-1"
  /\ last.actions[2].id = "r1-1" /\ last.actions[2].sessionKey = Lifecycle
  /\ "e-session-r1" \notin EdgeIds(last)
  /\ "e-r1-1-r1-2" \in EdgeIds(last)
  /\ {"action-r1-1", "action-r1-2", "session-conv-1"} \subseteq NodeIds(last)

C21_UnresolvedLaterCorrected ==
  [][/\ (/\ IsAdd(last')
         /\ IsUnresolved(last'.action.sessionKey)
         /\ last'.action.runId \notin DOMAIN runSessionMap')
          => (/\ last'.action.id \in DOMAIN actions'
                   \/ StreamingId(last'.action.runId) \in DOMAIN actions'
              /\ DOMAIN actions \subseteq DOMAIN actions')
     /\ (IsAdd(last') /\ last'.action.runId \in DOMAIN runSessionMap)
          => \A id \in DOMAIN actions' :
               actions'[id].runId = last'.action.runId
                 => ~IsUnresolved(actions'[id].sessionKey)]_vars

\* C25: an addAction with a delta or a terminal for a run whose streaming
\* record has a concrete sessionKey leaves that record with a concrete
\* sessionKey, whatever key the action carries.
C25_ConcreteKeyNeverLost ==
  [][(/\ IsAdd(last')
      /\ last'.action.type \in {"delta"} \cup TerminalTypes
      /\ StreamingId(last'.action.runId) \in DOMAIN actions
      /\ ~IsUnresolved(actions[StreamingId(last'.action.runId)].sessionKey))
       => (/\ StreamingId(last'.action.runId) \in DOMAIN actions'
           /\ ~IsUnresolved(actions'[StreamingId(last'.action.runId)].sessionKey))]_vars

\* A keyless delta was appended to a streaming record whose key
\* 'team-lifecycle' is not in the cache: the record keeps its key.
C25_Witness ==
  /\ IsAdd(last) /\ last.action.type = "delta"
  /\ last.action.sessionKey = Undefined
  /\ last.action.runId \notin DOMAIN runSessionMap
  /\ StreamingId(last.action.runId) \in DOMAIN actions
  /\ actions[StreamingId(last.action.runId)].sessionKey = "team-lifecycle"
  /\ actions[StreamingId(last.action.runId)].timestamp = last.action.timestamp
  /\ Len(hist.deltaLog[last.action.runId]) = 2

\* C27: a delta for a run whose streaming record has a terminal type is
\* appended to the content and overwrites seq and timestamp while the type
\* stays as it was; no step turns a terminal streaming record into a delta.
C27_LateDelta ==
  [][/\ (/\ IsAdd(last') /\ last'.action.type = "delta"
         /\ StreamingId(last'.action.runId) \in DOMAIN actions
         /\ actions[StreamingId(last'.action.runId)].type \in TerminalTypes)
          => LET sid == StreamingId(last'.action.runId)
             IN  /\ sid \in DOMAIN actions'
                 /\ actions'[sid].type = actions[sid].type
                 /\ actions'[sid].content
                      = OrEmpty(actions[sid].content) \o OrEmpty(last'.action.content)
                 /\ actions'[sid].seq = last'.action.seq
                 /\ actions'[sid].timestamp = last'.action.timestamp
     /\ \A r \in RunIds :
          (/\ StreamingId(r) \in DOMAIN actions
           /\ StreamingId(r) \in DOMAIN actions'
           /\ actions[StreamingId(r)].type \in TerminalTypes)
            => actions'[StreamingId(r)].type \in TerminalTypes]_vars

\* A delta "lo " with seq 2 arrived after the final of a run that had
\* streamed "Hel": the record reads "Hello " and is still final.
C27_Witness ==
  /\ IsAdd(last) /\ last.action.type = "delta" /\ last.action.content = "lo "
  /\ last.action.seq = 2
  /\ StreamingId(last.action.runId) \in DOMAIN actions
  /\ actions[StreamingId(last.action.runId)].type = "final"
  /\ actions[StreamingId(last.action.runId)].content = "Hello "
  /\ actions[StreamingId(last.action.runId)].seq = 2
  /\ actions[StreamingId(last.action.runId)].timestamp = last.action.timestamp

\* C30: the same delta delivered twice in a row is appended twice: the
\* content of the streaming record grows by c again and ends in c c.
C30_DeltasNotDeduplicated ==
  [][(/\ IsAdd(last) /\ IsAdd(last')
      /\ last'.action = last.action
      /\ last.action.type = "delta")
       => LET sid == StreamingId(last.action.runId)
              c   == OrEmpty(last.action.content)
              log == hist'.deltaLog[last.action.runId]
          IN  /\ sid \in DOMAIN actions /\ sid \in DOMAIN actions'
              /\ actions'[sid].content = OrEmpty(actions[sid].content) \o c
              /\ Len(log) >= 2
              /\ OrEmpty(log[Len(log)]) = c /\ OrEmpty(log[Len(log) - 1]) = c
              /\ actions'[sid].content
                   = Concat(SubSeq(log, 1, Len(log) - 2)) \o c \o c]_vars

\* The delta "Hel" of time 1 was delivered twice: the record reads "HelHel".
C30_Witness ==
  /\ IsAdd(last) /\ last.action.type = "delta" /\ last.action.content = "Hel"
  /\ last.action.timestamp = 1 /\ now = 2
  /\ hist.deltaLog[last.action.runId] = <<"Hel", "Hel">>
  /\ actions[StreamingId(last.action.runId)].content = "HelHel"
  /\ actions[StreamingId(last.action.runId)].seq = last.action.seq

\* -------------------------------------------------- later graph claims
\* Place of shown[i] among the shown actions of its run in ascending seq,
\* table order deciding between equal seqs, counted from 0.
RankInRun(shown, i) ==
  Cardinality({j \in 1..Len(shown) :
                 /\ shown[j].runId = shown[i].runId
                 /\ \/ shown[j].seq < shown[i].seq
                    \/ (shown[j].seq = shown[i].seq /\ j < i)})

\* The edges that leave an action node.
ChainEdgeIndexes(l) ==
  {k \in 1..Len(l.edges) :
     \E n \in 1..Len(l.nodes) :
       l.nodes[n].type = "action" /\ l.nodes[n].id = l.edges[k].source}

\* C22: the action -> action edges are exactly the edges that link each
\* visible action to the next one of its run in ascending seq, n-1 per run
\* and none across runs, animated exactly when the later action is a delta.
C22_ChainEdges ==
  IsProjection(last)
    => LET shown == ShownActions(last)
           chain == ChainEdgeIndexes(last)
           expected ==
             {Edge("e-" \o shown[i].id \o "-" \o shown[j].id,
                   ActionNodeId(shown[i].id), ActionNodeId(shown[j].id),
                   shown[j].type = "delta") :
                <<i, j>> \in {p \in (1..Len(shown)) \X (1..Len(shown)) :
                               /\ shown[p[1]].runId = shown[p[2]].runId
                               /\ RankInRun(shown, p[2]) = RankInRun(shown, p[1]) + 1}}
       IN  /\ {last.edges[k] : k \in chain} = expected
           /\ Cardinality(chain) = Cardinality(expected)
           /\ \A i \in 1..Len(shown) :
                Cardinality({k \in chain :
                               \E j \in 1..Len(shown) :
                                 /\ shown[j].runId = shown[i].runId
                                 /\ last.edges[k].source = ActionNodeId(shown[j].id)})
                  = Cardinality({j \in 1..Len(shown) :
                                   shown[j].runId = shown[i].runId}) - 1

\* Three actions of run r1 listed as seq 2, seq 1, open streaming record:
\* the chain runs r1-1 -> r1-2 -> r1-stream and only its last edge is animated.
C22_Witness ==
  /\ IsProjection(last)
  /\ Len(last.actions) = 3
  /\ last.actions[1].id = "r1-2"
  /\ last.actions[2].id = "r1-1"
  /\ last.actions[3].id = "r1-stream" /\ last.actions[3].type = "delta"
  /\ last.actions[3].seq = 2
  /\ Len(ShownActions(last)) = 3
  /\ \E k \in 1..Len(last.edges) :
       last.edges[k].id = "e-r1-1-r1-2" /\ ~last.edges[k].animated
  /\ \E k \in 1..Len(last.edges) :
       last.edges[k].id = "e-r1-2-r1-stream" /\ last.edges[k].animated

\* C26: every edge joins two emitted nodes; every session node has exactly
\* one incoming edge, from the crab node; every action node has at most one
\* incoming edge; the crab node has none.
C26_GraphWellFormed ==
  IsProjection(last)
    => LET incoming(id) == {k \in 1..Len(last.edges) : last.edges[k].target = id}
       IN  /\ \A k \in 1..Len(last.edges) :
                /\ last.edges[k].source \in NodeIds(last)
                /\ last.edges[k].target \in NodeIds(last)
           /\ \A n \in 1..Len(last.nodes) :
                CASE last.nodes[n].type = "session" ->
                       /\ Cardinality(incoming(last.nodes[n].id)) = 1
                       /\ \A k \in incoming(last.nodes[n].id) :
                            last.edges[k].source = CRAB_NODE_ID
                  [] last.nodes[n].type = "action" ->
                       Cardinality(incoming(last.nodes[n].id)) <= 1
                  [] OTHER ->
                       incoming(last.nodes[n].id) = {}

\* With conv-1 selected among two sessions the graph is the crab, the
\* session, and a chain of two actions hanging from it.
C26_Witness ==
  /\ IsProjection(last)
  /\ last.selectedSession = "conv-1"
  /\ Len(last.sessions) = 2
  /\ Len(last.nodes) = 4
  /\ EdgeIds(last) = {"e-crab-conv-1", "e-session-r1", "e-r1-1-r1-2"}
  /\ Len(last.edges) = 3

\* ------------------------------------------------ later session claims
\* C28: a polled snapshot has status idle; upserting it sets the stored
\* session to idle and to the snapshot's lastActivityAt; and for a poll and
\* a chat frame of one session the status left behind is that of whichever
\* is upserted second.
C28_PollOverwritesLiveStatus ==
  /\ (last.op = "upsertSession" /\ last.from = "poll")
       => LET k == last.session.key
          IN  /\ last.session.status = "idle"
              /\ k \in DOMAIN sessions
              /\ sessions[k].status = "idle"
              /\ sessions[k].lastActivityAt = last.session.lastActivityAt
  /\ \A info \in SessionInfos, st \in ChatStates :
       LET k     == info.key
           poll  == SessionInfoToMonitor(info)
           frame == ChatSessionPatch(k, st, now)
           pollThenFrame ==
             UpsertSessionResult(UpsertSessionResult(sessions, poll), frame)
           frameThenPoll ==
             UpsertSessionResult(UpsertSessionResult(sessions, frame), poll)
       IN  /\ pollThenFrame[k].status = frame.status
           /\ frameThenPoll[k].status = "idle"
           /\ frame.status # "idle"

\* A session a chat frame had set to thinking at time 1 is idle again, with
\* the older lastActivityAt 0 of the polled snapshot.
C28_Witness ==
  /\ last.op = "upsertSession" /\ last.from = "poll"
  /\ now = 1
  /\ DOMAIN sessions = {last.session.key}
  /\ sessions[last.session.key].status = "idle"
  /\ sessions[last.session.key].lastActivityAt = 0
  /\ "agentId" \in DOMAIN sessions[last.session.key]

\* -------------------------------------------------- later table claims
IsSessionOp(l) == l.op \in {"upsertSession", "updateSession", "updateSessionStatus"}

\* C24: addAction, upsertSession, updateSession and updateSessionStatus
\* remove no action id and no session key and leave every record under its
\* own id or key; clearCollections removes every record.
C24_NoIndividualDeletion ==
  [][/\ (IsAdd(last') \/ IsSessionOp(last'))
          => (/\ DOMAIN actions \subseteq DOMAIN actions'
              /\ DOMAIN sessions \subseteq DOMAIN sessions'
              /\ \A id \in DOMAIN actions' : actions'[id].id = id
              /\ \A k \in DOMAIN sessions' : sessions'[k].key = k)
     /\ last'.op = "clearCollections"
          => (actions' = EmptyTable /\ sessions' = EmptyTable)]_vars

\* An updateSession whose patch names another key was just applied to a
\* stored session, next to a streaming record: key and id are where they
\* were.
C24_Witness ==
  /\ last.op = "updateSession"
  /\ "key" \in DOMAIN last.update /\ last.update.key # last.key
  /\ last.key \in DOMAIN sessions
  /\ sessions[last.key].key = last.key
  /\ StreamingId("r1") \in DOMAIN actions
  /\ actions[StreamingId("r1")].id = StreamingId("r1")

\* C29: addAction leaves the sessions table as it was; upsertSession,
\* updateSession and updateSessionStatus leave the actions table and the
\* runId -> sessionKey cache as they were.
C29_TableSeparation ==
  [][/\ IsAdd(last') => sessions' = sessions
     /\ IsSessionOp(last')
          => (actions' = actions /\ runSessionMap' = runSessionMap)]_vars

\* An action with the concrete key conv-1 was stored while another session
\* is in the sessions table: no session conv-1 has appeared.
C29_Witness ==
  /\ IsAdd(last) /\ last.action.sessionKey = "conv-1"
  /\ last.action.id \in DOMAIN actions
  /\ actions[last.action.id].sessionKey = "conv-1"
  /\ sessions # EmptyTable
  /\ "conv-1" \notin DOMAIN sessions
  /\ runSessionMap = [r \in {"r1"} |-> "conv-1"]

\* -------------------------------------------------- monitor page claims
\* C23 as stated: while the page is not connected, in particular from a
\* successful handleDisconnect to the next connect, both tables are empty;
\* and a failed disconnect clears nothing.
C23_ClearedOnDisconnect ==
  [][/\ ~page'.connected => (sessions' = EmptyTable /\ actions' = EmptyTable)
     /\ (last'.op = "disconnect" /\ ~last'.ok)
          => (sessions' = sessions /\ actions' = actions)]_vars

====
